---- MODULE Spec2Model ----
(***************************************************************************)
(* Model of the codebase retrieval engine of backend/integrations/         *)
(* retrieval.py: iter_repo_files, simple_tokenize, chunk_text and the      *)
(* CodebaseIndexer (build / ensure_built / query), suggest_code_patterns,  *)
(* of the chat endpoint of backend/test_server.py, of is_prime of          *)
(* src/math_ops.py, of the EnhancedAgentCoordinator of backend/            *)
(* integrations/enhanced_coordination.py and of the AgentManager of        *)
(* backend/agents/__init__.py.                                             *)
(*                                                                         *)
(* Text is a sequence of characters; a character is a short string.  The   *)
(* characters "LF" (line feed), "FF" (form feed), "KELVIN" (U+212A),       *)
(* "IDOT" (U+0130) and "COMBDOT" (U+0307) stand for the code points they   *)
(* name.  Floats are fixed-point integers in units of 1/One.               *)
(***************************************************************************)
EXTENDS Integers, Sequences, FiniteSets, TLC

VARIABLES
    fs,         \* the files under root: path index -> name of its content
    max_lines,  \* CodebaseIndexer.max_lines
    fragments,  \* CodebaseIndexer.fragments
    df,         \* CodebaseIndexer.df
    vectors,    \* CodebaseIndexer.vectors
    built,      \* CodebaseIndexer._built
    op,         \* the last call made on the indexer ("new" after construction)
    ranBuild,   \* how many times the last call ran build()
    qtext,      \* text argument of the last query()
    qk,         \* k argument of the last query()
    result,     \* list returned by the last query(), each Fragment object of it
                \* as its position in fragments
    snap,       \* the files as the last build() read them (the fs of that moment)
    prevLen,    \* len(fragments) when the last call entered build(), 0 if it ran none
    tokIn,      \* argument of simple_tokenize
    tokOut,     \* its return value
    tokDone,    \* simple_tokenize has returned
    chunkIn,    \* text argument of chunk_text
    chunkM,     \* max_lines argument of chunk_text
    chunkOut,   \* its return value (<<>> when it raised)
    chunkErr,   \* the exception it raised, "" if none
    chunkDone,  \* chunk_text has returned or raised
    scanOut,    \* the paths iter_repo_files yielded over fs
    scanDone,   \* iter_repo_files has been run to its end
    sugRoot,    \* the state of the root directory of suggest_code_patterns
    sugPrompt,  \* its prompt argument
    sugK,       \* its k argument
    sugOut,     \* the list it returned (<<>> when it raised)
    sugErr,     \* the exception it raised, "" if none
    sugDone,    \* suggest_code_patterns has returned or raised
    mock_models,  \* test_server.mock_models, the cached model list
    api_key,    \* whether test_server.OPENROUTER_API_KEY is set
    chatReq,    \* the last request served and what the provider did with it
    chatResp,   \* the answer to it
    primeIn,    \* argument of is_prime
    primeOut,   \* its return value (FALSE when it raised)
    primeErr,   \* the exception it raised, "" if none
    primeDone,  \* is_prime has returned or raised
    shFragments,  \* two threads on one indexer: len(self.fragments)
    shVectors,  \* self.vectors, each entry "raw" (term counts) or "norm"
    shBuilt,    \* self._built
    thPc,       \* where each thread is in query()
    thIdx,      \* each thread's loop index inside build()
    thBuilds,   \* how many times each thread has entered build()
    thObs,      \* what each thread found when it scored
    agents,     \* EnhancedAgentCoordinator.agents
    tasks,      \* EnhancedAgentCoordinator.tasks
    task_queue, \* EnhancedAgentCoordinator.task_queue
    loopPc,     \* where _coordination_loop is
    cancelled,  \* the tasks for which cancel_task has returned True
    mgrAgents,  \* AgentManager.agents: status, progress and error of each
    running_tasks,  \* AgentManager.running_tasks and how far each has run
    runs        \* how many times run_agent has been called

indexVars == <<fs, max_lines, fragments, df, vectors, built, op, ranBuild, qtext, qk,
               result, snap, prevLen>>
tokVars == <<tokIn, tokOut, tokDone>>
chunkVars == <<chunkIn, chunkM, chunkOut, chunkErr, chunkDone>>
scanVars == <<scanOut, scanDone>>
sugVars == <<sugRoot, sugPrompt, sugK, sugOut, sugErr, sugDone>>
chatVars == <<mock_models, api_key, chatReq, chatResp>>
primeVars == <<primeIn, primeOut, primeErr, primeDone>>
raceVars == <<shFragments, shVectors, shBuilt, thPc, thIdx, thBuilds, thObs>>
coordVars == <<agents, tasks, task_queue, loopPc, cancelled>>
mgrVars == <<mgrAgents, running_tasks, runs>>
moreVars == <<primeVars, raceVars, coordVars, mgrVars>>
extVars == <<scanVars, sugVars, chatVars, moreVars>>
vars == <<indexVars, tokVars, chunkVars, extVars>>

----------------------------------------------------------------------------
(* Bounds *)

MaxK == 2
MaxTokPieces == 5
MaxChunkLen == 5
MaxM == 3
MaxMessages == 2
MaxPrime == 60
RaceChunks == 2
MaxRuns == 3

Min(a, b) == IF a <= b THEN a ELSE b
Max(a, b) == IF a >= b THEN a ELSE b

----------------------------------------------------------------------------
(* Characters *)

LowerSeq == <<"a","b","c","d","e","f","g","h","i","j","k","l","m",
              "n","o","p","q","r","s","t","u","v","w","x","y","z">>
UpperSeq == <<"A","B","C","D","E","F","G","H","I","J","K","L","M",
              "N","O","P","Q","R","S","T","U","V","W","X","Y","Z">>
AsciiLower == {LowerSeq[i] : i \in 1..26}
AsciiUpper == {UpperSeq[i] : i \in 1..26}
Digits == {"0","1","2","3","4","5","6","7","8","9"}

\* the character class [A-Za-z0-9_] of the pattern in simple_tokenize
WordChars == AsciiLower \cup AsciiUpper \cup Digits \cup {"_"}
IsWordChar(c) == c \in WordChars

\* str.lower() on one character: a sequence, since U+0130 lowers to two
\* code points and U+212A (KELVIN SIGN) lowers to the ASCII letter k
\* faulty variant: no lowercasing
LowerCharMut(c) == <<c>>
LowerOf == [c \in AsciiUpper |-> LowerSeq[CHOOSE i \in 1..26 : UpperSeq[i] = c]]
LowerChar(c) ==
    IF c \in AsciiUpper THEN <<LowerOf[c]>>
    ELSE IF c = "KELVIN" THEN <<"k">>
    ELSE IF c = "IDOT" THEN <<"i", "COMBDOT">>
    ELSE <<c>>

RECURSIVE str_lower_from(_, _)
str_lower_from(text, i) ==
    IF i > Len(text) THEN <<>> ELSE LowerChar(text[i]) \o str_lower_from(text, i + 1)

str_lower(text) == str_lower_from(text, 1)

----------------------------------------------------------------------------
(* simple_tokenize *)

\* re.split(r"[^A-Za-z0-9_]+", s): the pieces of s between maximal runs of
\* separator characters; a separator at either end leaves an empty piece
RECURSIVE re_split_from(_, _, _, _)
re_split_from(s, i, cur, inSep) ==
    IF i > Len(s) THEN <<cur>>
    ELSE IF IsWordChar(s[i]) THEN re_split_from(s, i + 1, Append(cur, s[i]), FALSE)
    ELSE IF inSep THEN re_split_from(s, i + 1, cur, TRUE)
    ELSE <<cur>> \o re_split_from(s, i + 1, <<>>, TRUE)

re_split(s) == re_split_from(s, 1, <<>>, FALSE)

\* faulty variant: keeps tokens of length 2
KeepTokenMut(t) == Len(t) >= 2
KeepToken(t) == Len(t) > 2

simple_tokenize(text) == SelectSeq(re_split(str_lower(text)), KeepToken)

----------------------------------------------------------------------------
(* chunk_text *)

\* the line boundaries of str.splitlines() that occur in the modelled texts
LineBreaks == {"LF", "FF"}

\* str.splitlines(): every line boundary ends a line, no empty last line
RECURSIVE splitlines_from(_, _, _)
splitlines_from(text, i, cur) ==
    IF i > Len(text) THEN (IF cur = <<>> THEN <<>> ELSE <<cur>>)
    ELSE IF text[i] \in LineBreaks THEN <<cur>> \o splitlines_from(text, i + 1, <<>>)
    ELSE splitlines_from(text, i + 1, Append(cur, text[i]))

splitlines(text) == splitlines_from(text, 1, <<>>)

\* "\n".join(lines)
\* faulty variant: a newline after the last line too
RECURSIVE JoinMut(_)
JoinMut(lines) ==
    IF lines = <<>> THEN <<>> ELSE lines[1] \o <<"LF">> \o JoinMut(Tail(lines))

RECURSIVE join_lf(_)
join_lf(lines) ==
    IF lines = <<>> THEN <<>>
    ELSE IF Len(lines) = 1 THEN lines[1]
    ELSE lines[1] \o <<"LF">> \o join_lf(Tail(lines))

\* lines[i : i + max_lines] for 0 <= i < len(lines), max_lines >= 1
\* faulty variant: one line too many
ChunkLinesMut(lines, i, m) == SubSeq(lines, i + 1, Min(i + m + 1, Len(lines)))
ChunkLines(lines, i, m) == SubSeq(lines, i + 1, Min(i + m, Len(lines)))

\* the loop over range(0, len(lines), max_lines), from offset i on
RECURSIVE chunk_from(_, _, _)
chunk_from(lines, i, m) ==
    IF i >= Len(lines) THEN <<>>
    ELSE LET chunk_lines == ChunkLines(lines, i, m)
         IN  << [start |-> i + 1,
                 end |-> Min(i + Len(chunk_lines), Len(lines)),
                 text |-> join_lf(chunk_lines)] >>
             \o chunk_from(lines, i + m, m)

\* range(0, len(lines), max_lines) raises ValueError for a step of 0
chunk_text_raises(text, m) == m = 0

\* chunk_text(text, max_lines) for max_lines # 0: the range is empty for a
\* negative step
chunk_text(text, m) ==
    IF m < 0 THEN <<>> ELSE chunk_from(splitlines(text), 0, m)

----------------------------------------------------------------------------
(* The files under root *)

ABSENT == "absent"          \* no such file
UNREADABLE == "unreadable"  \* open() or the UTF-8 decoding of read() raises

wFoo == <<"f","o","o">>
wBar == <<"b","a","r">>
wBaz == <<"B","a","z">>
wZzz == <<"z","z","z">>
wAb == <<"a","b">>
SP == <<" ">>

\* "foo foo bar\n\nBaz foo": three lines, the second one empty
TextA == wFoo \o SP \o wFoo \o SP \o wBar \o <<"LF", "LF">> \o wBaz \o SP \o wFoo
\* "foo\x0cab bar": two lines
TextB == wFoo \o <<"FF">> \o wAb \o SP \o wBar
\* the empty file
TextE == <<>>

\* what f.read() returns for a readable file, by the name of its content
ReadText(c) ==
    CASE c = "A" -> TextA
      [] c = "B" -> TextB
      [] c = "E" -> TextE

\* the files os.walk(root) can meet, in the order it yields them; base is the
\* directory part as its segments, str the string os.path.join(base, f)
PathSeq == <<
    [base |-> <<"src">>,   ext |-> <<".","p","y">>, str |-> "src/a.py"],
    [base |-> <<"docs">>,  ext |-> <<".","M","D">>, str |-> "docs/b.MD"],
    [base |-> <<"build">>, ext |-> <<".","p","y">>, str |-> "build/c.py"],
    [base |-> <<"builder">>, ext |-> <<".","p","y">>, str |-> "builder/d.py"],
    [base |-> <<"src">>,   ext |-> <<".","t","x","t">>, str |-> "src/e.txt"],
    [base |-> <<"src", "dist">>, ext |-> <<".","J","S">>, str |-> "src/dist/f.JS"],
    [base |-> <<".git">>,  ext |-> <<".","m","d">>, str |-> ".git/g.md"],
    [base |-> <<"src">>,   ext |-> <<".","t","s">>, str |-> "src/build.ts"] >>

PathIds == DOMAIN PathSeq

\* what each file can hold; build/c.py is a generated file that is always there
Contents(p) ==
    CASE p = 1 -> {UNREADABLE, "A", "B"}
      [] p = 2 -> {ABSENT, "A", "B", "E"}
      [] p = 3 -> {"B"}
      [] OTHER -> {ABSENT}

----------------------------------------------------------------------------
(* iter_repo_files *)

INDEX_EXTS == { <<".","p","y">>, <<".","t","s">>, <<".","t","s","x">>,
                <<".","j","s">>, <<".","m","d">> }

NoiseDirs == {".git", "node_modules", ".venv", "dist", "build", "__pycache__"}

\* the noise markers that are substrings of a directory name (seg in base)
MarkersIn(dir) ==
    CASE dir = "build" -> {"build"}
      [] dir = "builder" -> {"build"}
      [] dir = "dist" -> {"dist"}
      [] dir = ".git" -> {".git"}
      [] OTHER -> {}

\* faulty variant: no directory is skipped
SkipBaseMut(base) == FALSE
SkipBase(base) == \E i \in DOMAIN base : MarkersIn(base[i]) \cap NoiseDirs # {}

RECURSIVE walk_from(_, _)
walk_from(fsys, p) ==
    IF p > Len(PathSeq) THEN <<>>
    ELSE (IF /\ fsys[p] # ABSENT
             /\ ~SkipBase(PathSeq[p].base)
             /\ str_lower(PathSeq[p].ext) \in INDEX_EXTS
          THEN <<p>> ELSE <<>>) \o walk_from(fsys, p + 1)

\* the paths iter_repo_files(root) yields, as indices into PathSeq
iter_repo_files(fsys) == walk_from(fsys, 1)

----------------------------------------------------------------------------
(* Dictionaries and fixed-point floats *)

One == 1000

EmptyDict == [t \in {} |-> 0]
DictGet(d, t, default) == IF t \in DOMAIN d THEN d[t] ELSE default
DictPut(d, t, v) == [x \in DOMAIN d \cup {t} |-> IF x = t THEN v ELSE d[x]]
Range(s) == {s[i] : i \in DOMAIN s}

\* math.log(m) for the integers m the index meets, times One
LnTable == <<0, 693, 1099, 1386, 1609, 1792, 1946, 2079,
             2197, 2303, 2398, 2485, 2565, 2639, 2708, 2773>>

\* math.log((n + 1) / (1 + d)) + 1.0
\* faulty variant: the idf without the 1.0 added
IdfMut(n, d) == LnTable[n + 1] - LnTable[1 + d]
idf(n, d) == LnTable[n + 1] - LnTable[1 + d] + One

RECURSIVE isqrt_iter(_, _)
isqrt_iter(x, r) ==
    LET r2 == (r + x \div r) \div 2
    IN  IF r2 >= r THEN r ELSE isqrt_iter(x, r2)

\* math.sqrt on a value in units of 1/One^2, giving one in units of 1/One
sqrt(x) == IF x = 0 THEN 0 ELSE isqrt_iter(x, Min(x, 46340))

RECURSIVE SumOver(_, _)
SumOver(f, keys) ==
    IF keys = {} THEN 0
    ELSE LET t == CHOOSE x \in keys : TRUE
         IN  f[t] + SumOver(f, keys \ {t})

\* tf[t] = tf.get(t, 0.0) + 1.0 for every t of toks, in order
RECURSIVE count_terms(_, _)
count_terms(toks, tf) ==
    IF toks = <<>> THEN tf
    ELSE count_terms(Tail(toks),
                     DictPut(tf, Head(toks), DictGet(tf, Head(toks), 0) + 1))

\* the two loops that turn term counts into tf-idf weights of norm 1:
\* val = cnt * idf, norm = sqrt(sum of val * val) or 1.0, tf[t] /= norm
\* faulty variant: the weights are left as cnt * idf, not divided by the norm
TfidfNormalizeMut(tf, dfd, n) ==
    [t \in DOMAIN tf |-> tf[t] * idf(n, DictGet(dfd, t, 0))]
tfidf_normalize(tf, dfd, n) ==
    LET val == [t \in DOMAIN tf |-> tf[t] * idf(n, DictGet(dfd, t, 0))]
        sq == [t \in DOMAIN tf |-> val[t] * val[t]]
        root == sqrt(SumOver(sq, DOMAIN sq))
        norm == IF root = 0 THEN One ELSE root
    IN  [t \in DOMAIN tf |-> (val[t] * One) \div norm]

----------------------------------------------------------------------------
(* CodebaseIndexer *)

\* the three collections of an indexer as __init__ leaves them
NewIndex == [fragments |-> <<>>, df |-> EmptyDict, vectors |-> <<>>]

\* fragments.clear(); df.clear(); vectors.clear()
\* faulty variant: df is not cleared
ClearIndexMut(ix) == [NewIndex EXCEPT !.df = ix.df]
ClearIndex(ix) == NewIndex

\* for t in set(toks): df[t] = df.get(t, 0) + 1
\* faulty variant: counts every occurrence (for t in toks)
DfUpdateMut(dfd, toks) ==
    [t \in DOMAIN dfd \cup Range(toks) |->
        DictGet(dfd, t, 0) + Cardinality({i \in DOMAIN toks : toks[i] = t})]
DfUpdate(dfd, toks) ==
    [t \in DOMAIN dfd \cup Range(toks) |->
        DictGet(dfd, t, 0) + (IF t \in Range(toks) THEN 1 ELSE 0)]

\* the body of the loop over the chunks of one file
\* faulty variant: a chunk without tokens gets no vector
AddChunkMut(ix, p, c) ==
    LET toks == simple_tokenize(c.text)
    IN  [fragments |-> Append(ix.fragments,
                              [path |-> PathSeq[p].str, start |-> c.start,
                               end |-> c.end, text |-> c.text]),
         df |-> DfUpdate(ix.df, toks),
         vectors |-> IF toks = <<>> THEN ix.vectors
                     ELSE Append(ix.vectors, count_terms(toks, EmptyDict))]
add_chunk(ix, p, c) ==
    LET toks == simple_tokenize(c.text)
    IN  [fragments |-> Append(ix.fragments,
                              [path |-> PathSeq[p].str, start |-> c.start,
                               end |-> c.end, text |-> c.text]),
         df |-> DfUpdate(ix.df, toks),
         vectors |-> Append(ix.vectors, count_terms(toks, EmptyDict))]

RECURSIVE add_chunks(_, _, _)
add_chunks(ix, p, chunks) ==
    IF chunks = <<>> THEN ix
    ELSE add_chunks(add_chunk(ix, p, Head(chunks)), p, Tail(chunks))

\* the loop over iter_repo_files: a file that cannot be read is passed over
\* faulty variant: the loop ends at the first file that cannot be read
RECURSIVE ScanFilesMut(_, _, _, _)
ScanFilesMut(ix, files, fsys, m) ==
    IF files = <<>> THEN ix
    ELSE LET p == Head(files)
         IN  IF fsys[p] = UNREADABLE
             THEN ix
             ELSE ScanFilesMut(add_chunks(ix, p, chunk_text(ReadText(fsys[p]), m)),
                               Tail(files), fsys, m)
RECURSIVE scan_files(_, _, _, _)
scan_files(ix, files, fsys, m) ==
    IF files = <<>> THEN ix
    ELSE LET p == Head(files)
         IN  IF fsys[p] = UNREADABLE
             THEN scan_files(ix, Tail(files), fsys, m)
             ELSE scan_files(add_chunks(ix, p, chunk_text(ReadText(fsys[p]), m)),
                             Tail(files), fsys, m)

\* "convert tf to tf-idf and normalize"
weigh(ix) ==
    LET n == Max(1, Len(ix.fragments))
    IN  [ix EXCEPT !.vectors =
            [i \in DOMAIN ix.vectors |-> tfidf_normalize(ix.vectors[i], ix.df, n)]]

\* CodebaseIndexer.build on an indexer holding ix, max_lines m >= 1
build(ix, fsys, m) == weigh(scan_files(ClearIndex(ix), iter_repo_files(fsys), fsys, m))

\* the score of one stored vector against the query vector
score(qv, tf) ==
    LET prod == [t \in DOMAIN qv |->
                    IF DictGet(tf, t, 0) # 0 THEN qv[t] * tf[t] ELSE 0]
    IN  SumOver(prod, DOMAIN prod)

\* the (score, i) pairs of the fragments scoring above zero, in index order
\* faulty variants: keeps a score of zero; keeps a score above one half only
KeepScoreMut(s) == s >= 0
KeepScoreHalf(s) == 2 * s > One * One
KeepScore(s) == s > 0

RECURSIVE scores_from(_, _, _)
scores_from(qv, vecs, i) ==
    IF i > Len(vecs) THEN <<>>
    ELSE LET s == score(qv, vecs[i])
         IN  (IF KeepScore(s) THEN << <<s, i>> >> ELSE <<>>)
             \o scores_from(qv, vecs, i + 1)

\* tuple comparison a > b on (score, i) pairs
\* faulty variants: ascending sort; ties by ascending index
PairGreaterAsc(a, b) == a[1] < b[1] \/ (a[1] = b[1] /\ a[2] < b[2])
PairGreaterMut(a, b) == a[1] > b[1] \/ (a[1] = b[1] /\ a[2] < b[2])
PairGreater(a, b) == a[1] > b[1] \/ (a[1] = b[1] /\ a[2] > b[2])

\* scores.sort(reverse=True)
RECURSIVE sort_reverse(_)
sort_reverse(pairs) ==
    IF pairs = {} THEN <<>>
    ELSE LET top == CHOOSE a \in pairs : \A b \in pairs \ {a} : PairGreater(a, b)
         IN  <<top>> \o sort_reverse(pairs \ {top})

\* s[:k] of a Python list
\* faulty variant: one element too many
SliceToMut(s, k) == SubSeq(s, 1, Min(Max(k, 0) + 1, Len(s)))
SliceTo(s, k) ==
    IF k >= 0 THEN SubSeq(s, 1, Min(k, Len(s)))
    ELSE SubSeq(s, 1, Max(Len(s) + k, 0))

\* the query vector built from the tokens qtok
query_vector(ix, qtok) ==
    tfidf_normalize(count_terms(qtok, EmptyDict), ix.df, Max(1, Len(ix.fragments)))

\* the sorted (score, i) pairs of a query
ranked(ix, text) ==
    LET qtok == simple_tokenize(text)
    IN  IF qtok = <<>> THEN <<>>
        ELSE sort_reverse(Range(scores_from(query_vector(ix, qtok), ix.vectors, 1)))

\* top = [self.fragments[i] for _s, i in scores[:k]]: the Fragment objects
\* returned, each given as its position i in fragments
top_k(sorted, k) ==
    LET top == SliceTo(sorted, k)
    IN  [j \in DOMAIN top |-> top[j][2]]

\* what query(text, k) returns on a built indexer holding ix
query(ix, text, k) == top_k(ranked(ix, text), k)

----------------------------------------------------------------------------
(* The indexer and its directory *)

Index == [fragments |-> fragments, df |-> df, vectors |-> vectors]

NoFiles == [p \in PathIds |-> ABSENT]

IndexIdle ==
    /\ fs = NoFiles /\ max_lines = 1 /\ fragments = <<>> /\ df = EmptyDict
    /\ vectors = <<>> /\ built = FALSE /\ op = "new" /\ ranBuild = 0
    /\ qtext = <<>> /\ qk = 0 /\ result = <<>> /\ snap = NoFiles /\ prevLen = 0
TokIdle == tokIn = <<>> /\ tokOut = <<>> /\ tokDone = FALSE
ChunkIdle ==
    chunkIn = <<>> /\ chunkM = 1 /\ chunkOut = <<>> /\ chunkErr = "" /\ chunkDone = FALSE
ScanIdle == scanOut = <<>> /\ scanDone = FALSE
SugIdle ==
    /\ sugRoot = "ok" /\ sugPrompt = <<>> /\ sugK = 0 /\ sugOut = <<>>
    /\ sugErr = "" /\ sugDone = FALSE
NoRequest == [n |-> 0, model |-> "", post |-> "none"]
NoResponse == [status |-> 0, provider |-> "", model |-> "", content |-> ""]
ChatIdle ==
    mock_models = <<>> /\ api_key = FALSE /\ chatReq = NoRequest /\ chatResp = NoResponse
\* the small integer v as an argument of is_prime
SmallInt(v) == [e |-> 0, r |-> v]
PrimeIdle ==
    primeIn = SmallInt(0) /\ primeOut = FALSE /\ primeErr = "" /\ primeDone = FALSE
Threads == {1, 2}
NoObs == [lenF |-> -1, lenV |-> -1, raw |-> -1]
RaceIdle ==
    /\ shFragments = 0 /\ shVectors = <<>> /\ shBuilt = FALSE
    /\ thPc = [t \in Threads |-> "call"] /\ thIdx = [t \in Threads |-> 0]
    /\ thBuilds = [t \in Threads |-> 0] /\ thObs = [t \in Threads |-> NoObs]
NoneYet == [x \in {} |-> 0]
CoordIdle ==
    /\ agents = NoneYet /\ tasks = NoneYet /\ task_queue = <<>>
    /\ loopPc = "sleep" /\ cancelled = {}
AgentTypes == {"orchestrator", "planner"}
NewAgent == [status |-> "idle", progress |-> 0, error |-> "None"]
MgrIdle ==
    /\ mgrAgents = [a \in AgentTypes |-> NewAgent]
    /\ running_tasks = NoneYet /\ runs = 0
MoreIdle == PrimeIdle /\ RaceIdle /\ CoordIdle /\ MgrIdle
ExtIdle == ScanIdle /\ SugIdle /\ ChatIdle /\ MoreIdle

\* the max_lines_per_chunk the indexers are constructed with
ChunkSizes == {1, 2}

\* idx = CodebaseIndexer(root, max_lines_per_chunk) over some directory
Init ==
    /\ fs \in {f \in [PathIds -> UNION {Contents(p) : p \in PathIds}] :
                  \A p \in PathIds : f[p] \in Contents(p)}
    /\ max_lines \in ChunkSizes
    /\ fragments = <<>> /\ df = EmptyDict /\ vectors = <<>> /\ built = FALSE
    /\ op = "new" /\ ranBuild = 0 /\ qtext = <<>> /\ qk = 0 /\ result = <<>>
    /\ snap = NoFiles /\ prevLen = 0
    /\ TokIdle /\ ChunkIdle /\ ExtIdle

\* a file under root is created, rewritten, removed or made unreadable
WriteFile(p, c) ==
    /\ c # fs[p]
    /\ fs' = [fs EXCEPT ![p] = c]
    /\ op' = "fs" /\ ranBuild' = 0 /\ qtext' = <<>> /\ qk' = 0 /\ result' = <<>>
    /\ prevLen' = 0
    /\ UNCHANGED <<max_lines, fragments, df, vectors, built, snap>>

\* the state of the indexer after build() has run on it
Built(ix) ==
    /\ fragments' = ix.fragments /\ df' = ix.df /\ vectors' = ix.vectors
    /\ built' = TRUE /\ prevLen' = Len(fragments)

\* idx.build()
Build ==
    /\ Built(build(Index, fs, max_lines)) /\ snap' = fs
    /\ op' = "build" /\ ranBuild' = 1 /\ qtext' = <<>> /\ qk' = 0 /\ result' = <<>>
    /\ UNCHANGED <<fs, max_lines>>

\* whether ensure_built() calls build()
\* faulty variant: builds on every call
NeedsBuildMut == TRUE
NeedsBuild == ~built

\* ensure_built() as the first statement of a call; snap follows the first
\* build of the indexer and, after it, the calls of build() alone
EnsureBuiltStep ==
    /\ IF NeedsBuild
       THEN Built(build(Index, fs, max_lines)) /\ ranBuild' = 1
       ELSE UNCHANGED <<fragments, df, vectors, built>> /\ prevLen' = 0 /\ ranBuild' = 0
    /\ snap' = IF built THEN snap ELSE fs

\* idx.ensure_built()
EnsureBuilt ==
    /\ EnsureBuiltStep
    /\ op' = "ensure_built" /\ qtext' = <<>> /\ qk' = 0 /\ result' = <<>>
    /\ UNCHANGED <<fs, max_lines>>

\* idx.query(text, k)
Query(text, k) ==
    /\ EnsureBuiltStep
    /\ op' = "query" /\ qtext' = text /\ qk' = k
    /\ result' = query([fragments |-> fragments', df |-> df', vectors |-> vectors'],
                       text, k)
    /\ UNCHANGED <<fs, max_lines>>

\* the texts queried: fixed ones and the text of any fragment of the index
QueryTexts ==
    { <<"F","O","O">>, wBar \o SP \o wZzz \o SP \o wBar, wZzz, wAb \o <<"LF">> }
    \cup {fragments[i].text : i \in DOMAIN fragments}

Next ==
    \/ \E p \in PathIds : \E c \in Contents(p) :
          WriteFile(p, c) /\ UNCHANGED <<tokVars, chunkVars, extVars>>
    \/ Build /\ UNCHANGED <<tokVars, chunkVars, extVars>>
    \/ EnsureBuilt /\ UNCHANGED <<tokVars, chunkVars, extVars>>
    \/ \E text \in QueryTexts : \E k \in -1..MaxK :
          Query(text, k) /\ UNCHANGED <<tokVars, chunkVars, extVars>>

Spec == Init /\ [][Next]_vars

----------------------------------------------------------------------------
(* simple_tokenize on its own *)

\* all sequences of at most n elements of S
SeqsUpTo(S, n) == UNION {[1..m -> S] : m \in 0..n}

RECURSIVE Concat(_)
Concat(ss) == IF ss = <<>> THEN <<>> ELSE Head(ss) \o Concat(Tail(ss))

\* the texts tokenized: up to MaxTokPieces of these pieces, concatenated
TokPieces == { <<"a">>, <<"B", "1">>, <<"_">>, <<" ">>, <<"KELVIN">>, <<"IDOT">> }
TokTexts == {Concat(ps) : ps \in SeqsUpTo(TokPieces, MaxTokPieces)}

InitTok ==
    /\ tokIn \in TokTexts /\ tokOut = <<>> /\ tokDone = FALSE
    /\ IndexIdle /\ ChunkIdle /\ ExtIdle

\* tokOut = simple_tokenize(tokIn)
Tokenize ==
    /\ ~tokDone
    /\ tokOut' = simple_tokenize(tokIn)
    /\ tokDone' = TRUE
    /\ UNCHANGED <<tokIn, indexVars, chunkVars, extVars>>

NextTok == Tokenize

SpecTok == InitTok /\ [][NextTok]_vars

----------------------------------------------------------------------------
(* chunk_text on its own *)

ChunkChars == {"a", "LF", "FF"}

InitChunk ==
    /\ chunkIn \in SeqsUpTo(ChunkChars, MaxChunkLen)
    /\ chunkM \in -1..MaxM
    /\ chunkOut = <<>> /\ chunkErr = "" /\ chunkDone = FALSE
    /\ IndexIdle /\ TokIdle /\ ExtIdle

\* chunkOut = chunk_text(chunkIn, chunkM), or the exception it raises
ChunkText ==
    /\ ~chunkDone
    /\ IF chunk_text_raises(chunkIn, chunkM)
       THEN chunkOut' = <<>> /\ chunkErr' = "ValueError"
       ELSE chunkOut' = chunk_text(chunkIn, chunkM) /\ chunkErr' = ""
    /\ chunkDone' = TRUE
    /\ UNCHANGED <<chunkIn, chunkM, indexVars, tokVars, extVars>>

NextChunk == ChunkText

SpecChunk == InitChunk /\ [][NextChunk]_vars

----------------------------------------------------------------------------
(* C7 *)

CeilDiv(a, b) == (a + b - 1) \div b

\* C7: for a text of L lines and max_lines M >= 1, chunk_text returns exactly
\* ceil(L/M) chunks (none when L = 0); the j-th chunk has
\* start = (j-1)*M + 1 and end = min(start + M - 1, L), so it holds at most M
\* lines.
C7_ChunkCountAndBounds ==
    (chunkDone /\ chunkM >= 1) =>
        LET L == Len(splitlines(chunkIn))
        IN  /\ chunkErr = ""
            /\ Len(chunkOut) = CeilDiv(L, chunkM)
            /\ \A j \in DOMAIN chunkOut :
                  /\ chunkOut[j].start = (j - 1) * chunkM + 1
                  /\ chunkOut[j].end = Min(chunkOut[j].start + chunkM - 1, L)
                  /\ chunkOut[j].end - chunkOut[j].start + 1 <= chunkM

\* a text whose line count is no multiple of M >= 2 was chunked into several
\* chunks, the last one shorter than M
C7_Witness ==
    /\ chunkDone /\ chunkM >= 2 /\ Len(chunkOut) >= 2
    /\ chunkOut[Len(chunkOut)].end - chunkOut[Len(chunkOut)].start + 1 < chunkM

----------------------------------------------------------------------------
(* C9 *)

\* the maximal runs of [A-Za-z0-9_] of s that are longer than 2 characters,
\* in their order of occurrence
RunStarts(s) ==
    {i \in DOMAIN s : IsWordChar(s[i]) /\ (i = 1 \/ ~IsWordChar(s[i - 1]))}
RunEnd(s, i) ==
    CHOOSE j \in i..Len(s) :
        /\ \A x \in i..j : IsWordChar(s[x])
        /\ (j = Len(s) \/ ~IsWordChar(s[j + 1]))
LongRunStarts(s) == {i \in RunStarts(s) : RunEnd(s, i) - i + 1 > 2}

RECURSIVE RunsFrom(_, _)
RunsFrom(s, starts) ==
    IF starts = {} THEN <<>>
    ELSE LET i == CHOOSE x \in starts : \A y \in starts : x <= y
         IN  <<SubSeq(s, i, RunEnd(s, i))>> \o RunsFrom(s, starts \ {i})

LongRuns(s) == RunsFrom(s, LongRunStarts(s))

\* C9 as stated: simple_tokenize(text) is exactly the lowercased maximal runs
\* of ASCII letters, digits and underscore of text that are longer than 2
\* characters, in order.
C9_RunsOfTextLowercased ==
    tokDone => tokOut = [n \in DOMAIN LongRuns(tokIn) |-> str_lower(LongRuns(tokIn)[n])]

\* C9 amended: simple_tokenize(text) is exactly the maximal runs of ASCII
\* letters, digits and underscore of text.lower() that are longer than 2
\* characters, in order; every token has length >= 3 and holds only
\* lowercase ASCII letters, digits and underscore.
C9_RunsOfLoweredText ==
    tokDone =>
        /\ tokOut = LongRuns(str_lower(tokIn))
        /\ \A n \in DOMAIN tokOut :
              /\ Len(tokOut[n]) >= 3
              /\ \A x \in DOMAIN tokOut[n] :
                    tokOut[n][x] \in AsciiLower \cup Digits \cup {"_"}

\* a text with an upper-case letter and a separator gave two tokens
C9_Witness ==
    /\ tokDone /\ Len(tokOut) = 2
    /\ \E x \in DOMAIN tokIn : tokIn[x] \in AsciiUpper

----------------------------------------------------------------------------
(* Claims about the indexer *)

\* the tokens of the last query text and of fragment i
QTokens == simple_tokenize(qtext)
FragTokens(i) == simple_tokenize(fragments[i].text)

\* the score of fragment i against the last query text (0 when the text has
\* no token: query() then returns before scoring)
ScoreOf(i) ==
    IF QTokens = <<>> THEN 0 ELSE score(query_vector(Index, QTokens), vectors[i])

\* the fragments scoring above zero against the last query text
Matching == {i \in DOMAIN vectors : ScoreOf(i) > 0}

\* C1: on an indexer never built, the first query() or ensure_built() runs
\* build() exactly once; once built, no query() or ensure_built() runs
\* build() again, also after an explicit build(); the indexer stays built.
C1_LazyBuildOnce ==
    [][ /\ built => built'
        /\ op' \in {"query", "ensure_built"} =>
              (built' /\ ranBuild' = IF built THEN 0 ELSE 1) ]_vars

\* the first query() on a fresh indexer built the index and answered from it
C1_Witness == op = "query" /\ ranBuild = 1 /\ result # <<>>

\* C2: after any sequence of build() calls, fragments, df and vectors are
\* those one build() on a fresh indexer produces for the files as they were
\* at the last call.
C2_RebuildEqualsFreshBuild ==
    built => Index = build(NewIndex, snap, max_lines)

\* an explicit rebuild after a file was removed left fewer fragments
C2_Witness ==
    /\ op = "build" /\ prevLen > Len(fragments) /\ Len(fragments) >= 1
    /\ \E p \in PathIds : snap[p] = ABSENT

\* C3: for k >= 0, query(text, k) returns exactly min(k, m) fragments, m the
\* number of fragments scoring above zero.
C3_ResultLength ==
    (op = "query" /\ qk >= 0) => Len(result) = Min(qk, Cardinality(Matching))

\* a query with 1 <= k < m returned k fragments
C3_Witness ==
    op = "query" /\ qk >= 1 /\ Cardinality(Matching) > qk /\ Len(result) = qk

\* C4: the result is in non-increasing score order, among equal scores the
\* larger insertion index first, and no fragment left out scores strictly
\* higher than a returned one.
C4_RankedOrder ==
    op = "query" =>
        /\ \A j \in 1..(Len(result) - 1) :
              \/ ScoreOf(result[j]) > ScoreOf(result[j + 1])
              \/ /\ ScoreOf(result[j]) = ScoreOf(result[j + 1])
                 /\ result[j] > result[j + 1]
        /\ \A i \in DOMAIN fragments \ Range(result) :
              \A j \in DOMAIN result : ScoreOf(i) <= ScoreOf(result[j])

\* a result with two fragments of equal score, a matching fragment left out
C4_Witness ==
    /\ op = "query"
    /\ \E j \in 1..(Len(result) - 1) : ScoreOf(result[j]) = ScoreOf(result[j + 1])
    /\ \E i \in Matching : i \notin Range(result)

\* no token of the last query text is a token of any fragment
NoTokenShared ==
    \A i \in DOMAIN fragments : Range(QTokens) \cap Range(FragTokens(i)) = {}

\* C5: query(text, k) returns the empty list when text yields no token and
\* when none of its tokens occurs in any fragment.
C5_EmptyOnNoMatch ==
    (op = "query" /\ (QTokens = <<>> \/ NoTokenShared)) => result = <<>>

\* a text with tokens, none of them in the non-empty index, asked with k > 0
C5_Witness ==
    /\ op = "query" /\ QTokens # <<>> /\ NoTokenShared
    /\ fragments # <<>> /\ qk > 0 /\ result = <<>>

\* the fragments whose text is the last query text
Queried == {i \in DOMAIN fragments : fragments[i].text = qtext}

\* C6 as stated: for a fragment F with at least one token and k >= 1,
\* query(F.text, k) contains F.
C6_SelfQueryContainsF ==
    (op = "query" /\ qk >= 1 /\ QTokens # <<>>) =>
        \A i \in Queried : i \in Range(result)

\* C6 amended: for a fragment F with at least one token and k >= 1, F scores
\* above zero against F.text, and query(F.text, k) contains F unless at
\* least k other fragments score at least as high as F.
C6_SelfQueryUnlessOutranked ==
    (op = "query" /\ qk >= 1 /\ QTokens # <<>>) =>
        \A i \in Queried :
            /\ ScoreOf(i) > 0
            /\ Cardinality({j \in DOMAIN fragments \ {i} : ScoreOf(j) >= ScoreOf(i)}) < qk
                  => i \in Range(result)

\* query(F.text, 1) returned F ahead of other matching fragments
C6_Witness ==
    /\ op = "query" /\ qk = 1 /\ QTokens # <<>>
    /\ Cardinality(Matching) >= 2
    /\ \E i \in Queried : result = <<i>>

\* text.split("\n"): the lines a fragment text was joined from
RECURSIVE split_lf_from(_, _, _)
split_lf_from(text, i, cur) ==
    IF i > Len(text) THEN <<cur>>
    ELSE IF text[i] = "LF" THEN <<cur>> \o split_lf_from(text, i + 1, <<>>)
    ELSE split_lf_from(text, i + 1, Append(cur, text[i]))

FragLines(i) == split_lf_from(fragments[i].text, 1, <<>>)

\* the positions in fragments of the fragments of file p
FragsOf(p) == {i \in DOMAIN fragments : fragments[i].path = PathSeq[p].str}

RECURSIVE LinesOfFrags(_, _)
LinesOfFrags(lo, hi) ==
    IF lo > hi THEN <<>> ELSE FragLines(lo) \o LinesOfFrags(lo + 1, hi)

\* the files the last build() indexed: those it listed and could read
IndexedFiles ==
    {p \in Range(iter_repo_files(snap)) : snap[p] # UNREADABLE}

\* C8: after build(), the fragments of every indexed file are consecutive in
\* the fragment list and in ascending line order: the first starts at 1,
\* each next one starts at the previous end + 1, the last ends at the file's
\* line count, 1 <= start <= end, and their lines joined in order are the
\* file's lines.
C8_FragmentsCoverFile ==
    built =>
        \A p \in IndexedFiles :
            LET fl == splitlines(ReadText(snap[p]))
                F == FragsOf(p)
            IN  IF F = {} THEN fl = <<>>
                ELSE LET lo == CHOOSE i \in F : \A j \in F : i <= j
                         hi == CHOOSE i \in F : \A j \in F : i >= j
                     IN  /\ F = lo..hi
                         /\ fragments[lo].start = 1
                         /\ fragments[hi].end = Len(fl)
                         /\ \A i \in F : 1 <= fragments[i].start
                                         /\ fragments[i].start <= fragments[i].end
                         /\ \A i \in lo..(hi - 1) :
                               fragments[i + 1].start = fragments[i].end + 1
                         /\ LinesOfFrags(lo, hi) = fl

\* a file indexed as several fragments, one of them of more than one line
C8_Witness ==
    /\ built
    /\ \E i \in 1..(Len(fragments) - 1) :
          /\ fragments[i].path = fragments[i + 1].path
          /\ fragments[i].end > fragments[i].start

\* C10: after build(), df[t] is the number of fragments in which t occurs at
\* least once, for every token t, and every key of df has
\* 1 <= df[t] <= number of fragments.
C10_DocumentFrequency ==
    built =>
        /\ \A t \in DOMAIN df \cup UNION {Range(FragTokens(i)) : i \in DOMAIN fragments}
                       \cup {wZzz} :
              DictGet(df, t, 0) =
                  Cardinality({i \in DOMAIN fragments : t \in Range(FragTokens(i))})
        /\ \A t \in DOMAIN df : 1 <= df[t] /\ df[t] <= Len(fragments)

\* a token occurring twice in one fragment and in several fragments
C10_Witness ==
    /\ built
    /\ \E i \in DOMAIN fragments : \E t \in Range(FragTokens(i)) :
          /\ Cardinality({x \in DOMAIN FragTokens(i) : FragTokens(i)[x] = t}) >= 2
          /\ df[t] >= 2

----------------------------------------------------------------------------
(* C11 *)

\* C11: after build(), vectors has exactly one entry per fragment
\* (len(vectors) = len(fragments)), the keys of vectors[i] are exactly the
\* distinct tokens of fragments[i].text, and every such key is a key of df.
C11_VectorsAlignWithFragments ==
    built =>
        /\ Len(vectors) = Len(fragments)
        /\ \A i \in DOMAIN fragments :
              /\ DOMAIN vectors[i] = Range(FragTokens(i))
              /\ DOMAIN vectors[i] \subseteq DOMAIN df

\* a built index holding a fragment without tokens before one with two
\* distinct tokens
C11_Witness ==
    /\ built /\ op = "build"
    /\ \E i, j \in DOMAIN fragments :
          /\ i < j
          /\ FragTokens(i) = <<>>
          /\ Cardinality(Range(FragTokens(j))) >= 2

----------------------------------------------------------------------------
(* C12 *)

\* the number of times token t occurs in fragment i
TermCount(i, t) == Cardinality({j \in DOMAIN FragTokens(i) : FragTokens(i)[j] = t})

\* the Euclidean norm of a vector, in units of 1/One
NormOf(v) == sqrt(SumOver([t \in DOMAIN v |-> v[t] * v[t]], DOMAIN v))

\* C12: after build(), every vector with at least one term has Euclidean norm
\* 1 within the rounding of the arithmetic (here 3/One), each weight being
\* tf * (ln((n + 1) / (1 + df[t])) + 1) divided by the vector's norm, with
\* n = max(1, number of fragments); a fragment with no tokens has an empty
\* vector, and build() completes on it (its norm of 0 is replaced by 1).
C12_UnitNormWeights ==
    built =>
        \A i \in DOMAIN vectors :
            LET n == Max(1, Len(fragments))
                terms == Range(FragTokens(i))
                val == [t \in terms |->
                           TermCount(i, t) * (LnTable[n + 1] - LnTable[1 + df[t]] + One)]
                norm == sqrt(SumOver([t \in terms |-> val[t] * val[t]], terms))
            IN  IF terms = {}
                THEN vectors[i] = EmptyDict
                ELSE /\ DOMAIN vectors[i] = terms
                     /\ \A t \in terms : vectors[i][t] = (val[t] * One) \div norm
                     /\ NormOf(vectors[i]) \in (One - 3)..(One + 3)

\* a built index with a vector of several terms of different weights and a
\* fragment without tokens
C12_Witness ==
    /\ built /\ op = "build"
    /\ \E i \in DOMAIN vectors : vectors[i] = EmptyDict
    /\ \E i \in DOMAIN vectors :
          /\ Cardinality(DOMAIN vectors[i]) >= 2
          /\ \E t, u \in DOMAIN vectors[i] : vectors[i][t] # vectors[i][u]

----------------------------------------------------------------------------
(* iter_repo_files on its own *)

\* the indexer of IndexIdle, over whatever files there are
IndexUnused ==
    /\ max_lines = 1 /\ fragments = <<>> /\ df = EmptyDict
    /\ vectors = <<>> /\ built = FALSE /\ op = "new" /\ ranBuild = 0
    /\ qtext = <<>> /\ qk = 0 /\ result = <<>> /\ snap = NoFiles /\ prevLen = 0

\* every file of PathSeq is there (empty) or not
InitScan ==
    /\ fs \in [PathIds -> {ABSENT, "E"}]
    /\ IndexUnused /\ TokIdle /\ ChunkIdle
    /\ scanOut = <<>> /\ scanDone = FALSE /\ SugIdle /\ ChatIdle /\ MoreIdle

\* scanOut = list(iter_repo_files(root))
ScanRepo ==
    /\ ~scanDone
    /\ scanOut' = iter_repo_files(fs)
    /\ scanDone' = TRUE
    /\ UNCHANGED <<indexVars, tokVars, chunkVars, sugVars, chatVars, moreVars>>

NextScan == ScanRepo

SpecScan == InitScan /\ [][NextScan]_vars

----------------------------------------------------------------------------
(* C13 *)

\* C13: iter_repo_files yields a file if and only if its extension, compared
\* case-insensitively, is one of .py, .ts, .tsx, .js, .md and no directory
\* segment of its path is named .git, node_modules, .venv, dist, build or
\* __pycache__; the exclusion is by whole path segment, so a file in a
\* directory whose name is not one of these markers is not excluded.
C13_WholeSegmentExclusion ==
    scanDone =>
        \A p \in PathIds :
            fs[p] # ABSENT =>
                (p \in Range(scanOut) <=>
                    /\ str_lower(PathSeq[p].ext) \in INDEX_EXTS
                    /\ \A i \in DOMAIN PathSeq[p].base :
                          PathSeq[p].base[i] \notin NoiseDirs)

----------------------------------------------------------------------------
(* C14 *)

\* the files with every unreadable one taken away
WithoutUnreadable(fsys) ==
    [p \in PathIds |-> IF fsys[p] = UNREADABLE THEN ABSENT ELSE fsys[p]]

\* C14: when opening, reading or decoding a file fails during build(),
\* build() still completes and sets built; that file contributes no fragment,
\* no vector and no df count, and every other file is indexed exactly as if
\* the failing file did not exist.
C14_UnreadableFileSkipped ==
    /\ op = "build" => built
    /\ built =>
          /\ Index = build(NewIndex, WithoutUnreadable(snap), max_lines)
          /\ \A p \in PathIds : \A i \in DOMAIN fragments :
                snap[p] = UNREADABLE => fragments[i].path # PathSeq[p].str

\* build() has run over an unreadable file followed by a readable one that
\* it indexed
C14_Witness ==
    /\ op = "build" /\ built
    /\ \E p, q \in PathIds :
          /\ p < q /\ snap[p] = UNREADABLE
          /\ \E i \in DOMAIN fragments : fragments[i].path = PathSeq[q].str

----------------------------------------------------------------------------
(* suggest_code_patterns *)

\* the default max_lines_per_chunk of CodebaseIndexer
DEFAULT_MAX_LINES == 80

\* the error that listing the directory root raises inside os.walk, "" if none
WalkError(root) ==
    CASE root = "missing" -> "FileNotFoundError"
      [] root = "unreadable" -> "PermissionError"
      [] OTHER -> ""

\* what os.walk does with such an error: its onerror is None, the error is
\* dropped
\* faulty variant: the error is raised to the caller
OnErrorMut(e) == e
onerror(e) == ""

\* the files os.walk(root) visits: none under a root that cannot be listed
os_walk(root, fsys) == IF WalkError(root) = "" THEN fsys ELSE NoFiles

\* {"path": f.path, "start": f.start, "end": f.end}
\* faulty variant: the whole fragment, text included
PatternMut(f) == f
pattern(f) == [path |-> f.path, start |-> f.start, end |-> f.end]

\* suggest_code_patterns(prompt, root, k), root holding the files fsys
suggest_code_patterns(prompt, fsys, k) ==
    LET idx == build(NewIndex, fsys, DEFAULT_MAX_LINES)
        frags == query(idx, prompt, k)
    IN  [j \in DOMAIN frags |-> pattern(idx.fragments[frags[j]])]

\* the prompts: "foo", "bar ab", "zzz" and the empty one
SugPrompts == {wFoo, wBar \o SP \o wAb, wZzz, <<>>}

\* a root that does not exist holds no file
InitSug ==
    /\ fs \in {f \in [PathIds -> UNION {Contents(p) : p \in PathIds}] :
                  \A p \in PathIds : f[p] \in Contents(p)} \cup {NoFiles}
    /\ sugRoot \in {"ok", "missing", "unreadable"}
    /\ sugRoot = "missing" <=> fs = NoFiles
    /\ sugPrompt \in SugPrompts /\ sugK \in -1..MaxK
    /\ sugOut = <<>> /\ sugErr = "" /\ sugDone = FALSE
    /\ IndexUnused /\ TokIdle /\ ChunkIdle /\ ScanIdle /\ ChatIdle /\ MoreIdle

\* sugOut = suggest_code_patterns(sugPrompt, root, sugK), or the exception
\* it raises
Suggest ==
    /\ ~sugDone
    /\ LET e == onerror(WalkError(sugRoot))
       IN  IF e # ""
           THEN sugOut' = <<>> /\ sugErr' = e
           ELSE /\ sugOut' = suggest_code_patterns(sugPrompt, os_walk(sugRoot, fs), sugK)
                /\ sugErr' = ""
    /\ sugDone' = TRUE
    /\ UNCHANGED <<sugRoot, sugPrompt, sugK, indexVars, tokVars, chunkVars,
                   scanVars, chatVars, moreVars>>

NextSug == Suggest

SpecSug == InitSug /\ [][NextSug]_vars

----------------------------------------------------------------------------
(* C15 *)

\* C15: suggest_code_patterns(prompt, root, k) does not raise when root does
\* not exist or cannot be read: it returns an empty list, or, when only some
\* files under root cannot be read, the results for the readable part.
C15_MissingRootGivesEmptyList ==
    sugDone =>
        /\ sugErr = ""
        /\ sugRoot # "ok" => sugOut = <<>>
        /\ sugRoot = "ok" =>
              sugOut = suggest_code_patterns(sugPrompt, WithoutUnreadable(fs), sugK)

\* the call has returned for a root that does not exist
C15_Witness ==
    /\ sugDone /\ sugRoot = "missing" /\ sugPrompt = wFoo /\ sugK >= 1

----------------------------------------------------------------------------
(* C16 *)

\* C16: suggest_code_patterns(prompt, root, k) returns one record per fragment
\* that query(prompt, k) returns on a freshly built indexer over root with
\* the default chunk size 80, in the same order and of the same length; each
\* record has exactly the keys path, start and end, with that fragment's
\* values, and never the fragment text.
C16_PatternsAreQueryResults ==
    (sugDone /\ sugErr = "") =>
        LET idx == build(NewIndex, os_walk(sugRoot, fs), DEFAULT_MAX_LINES)
            frags == query(idx, sugPrompt, sugK)
        IN  /\ Len(sugOut) = Len(frags)
            /\ \A j \in DOMAIN frags :
                  /\ DOMAIN sugOut[j] = {"path", "start", "end"}
                  /\ sugOut[j].path = idx.fragments[frags[j]].path
                  /\ sugOut[j].start = idx.fragments[frags[j]].start
                  /\ sugOut[j].end = idx.fragments[frags[j]].end

\* two records were returned, one of them a whole file of three lines in a
\* single chunk
C16_Witness ==
    /\ sugDone /\ Len(sugOut) = 2
    /\ sugOut[1].path # sugOut[2].path
    /\ \E j \in DOMAIN sugOut : sugOut[j].start = 1 /\ sugOut[j].end = 3

----------------------------------------------------------------------------
(* C18 *)

\* C18: on an indexer that is already built, query() leaves fragments, df,
\* vectors and built unchanged, for every text and every k; the list it
\* returns is a new one, so a list returned earlier (and the fragments in
\* it) is not changed by later queries.
C18_QueryLeavesIndexUnchanged ==
    [][(built /\ op' = "query") => UNCHANGED <<fragments, df, vectors, built>>]_vars

\* a query has answered from a built index whose files have changed since,
\* so that building again would have changed the index
C18_Witness ==
    /\ op = "query" /\ ranBuild = 0 /\ result # <<>>
    /\ fs # snap
    /\ build(NewIndex, fs, max_lines) # Index

----------------------------------------------------------------------------
(* C19 *)

\* the Fragment objects that the positions r stand for in the index ix
FragmentsAt(ix, r) == [j \in DOMAIN r |-> ix.fragments[r[j]]]

\* C19: between two calls of build(), every query result depends only on the
\* files as the last build() read them: a change to the files changes no
\* query result until build() is called again, and after that call the index,
\* and so the results, reflect the new files.
C19_ResultsFollowLastBuild ==
    /\ op = "query" =>
          LET ix == build(NewIndex, snap, max_lines)
          IN  FragmentsAt(Index, result) = FragmentsAt(ix, query(ix, qtext, qk))
    /\ op = "build" => Index = build(NewIndex, fs, max_lines)

\* a query answered after the files changed, with an answer that an index of
\* the changed files would not give
C19_Witness ==
    /\ op = "query" /\ result # <<>> /\ fs # snap
    /\ LET ix == build(NewIndex, fs, max_lines)
       IN  FragmentsAt(Index, result) # FragmentsAt(ix, query(ix, qtext, qk))

----------------------------------------------------------------------------
(* backend/test_server.py: the model list and POST /api/chat *)

\* the outcomes of an HTTP call to a provider: a 200 with the body expected,
\* another status, an exception (connection, timeout), a 200 whose body
\* lacks what the handler reads from it
HttpOutcomes == {"ok", "non200", "raise", "malformed"}

OllamaModel == [id |-> "llama3", provider |-> "ollama"]
OpenRouterModel == [id |-> "open:1", provider |-> "openrouter"]

\* the two fallback entries of get_available_models
MockModels == << [id |-> "mock-gpt-3.5-turbo", provider |-> "openrouter"],
                [id |-> "mock-llama2:7b", provider |-> "ollama"] >>

\* get_available_models(): tags and listing are the outcomes of the two GETs
get_available_models(tags, listing, key) ==
    LET models == (IF tags = "ok" THEN <<OllamaModel>> ELSE <<>>)
                  \o (IF key /\ listing = "ok" THEN <<OpenRouterModel>> ELSE <<>>)
    IN  IF models = <<>> THEN MockModels ELSE models

\* if not mock_models: mock_models = await get_available_models()
cached_models(models, tags, listing, key) ==
    IF models = <<>> THEN get_available_models(tags, listing, key) ELSE models

\* request.model is None (not named) or a string; None and "" are falsy
NoModelNamed == "None"
Truthy(model) == model \notin {NoModelNamed, ""}

\* for model in mock_models: if model.id == request.model: ... break
NotFound == [id |-> "", provider |-> ""]
find_model(models, id) ==
    IF \E i \in DOMAIN models : models[i].id = id
    THEN models[CHOOSE i \in DOMAIN models :
                   /\ models[i].id = id
                   /\ \A j \in 1..(i - 1) : models[j].id # id]
    ELSE NotFound

\* the body of the try block: "reply" when it returns the provider's answer,
\* "none" when it falls through, "raise" when an exception leaves it
provider_call(selected, key, post) ==
    IF selected.provider = "ollama" \/ (selected.provider = "openrouter" /\ key)
    THEN CASE post = "ok" -> "reply"
           [] post = "non200" -> "none"
           [] OTHER -> "raise"
    ELSE "none"

\* except Exception: the exception is printed and the handler goes on
\* faulty variant: the exception leaves the handler
ExceptMut(outcome) == outcome
except_exception(outcome) == IF outcome = "raise" THEN "none" ELSE outcome

\* the answer of chat_completion to a request of n messages naming model,
\* with models the model list after the handler has filled it
chat_completion(n, model, models, key, post) ==
    LET selected == IF Truthy(model) THEN find_model(models, model) ELSE NotFound
        outcome == IF selected = NotFound THEN "none"
                   ELSE except_exception(provider_call(selected, key, post))
    IN  CASE n = 0 ->
               [status |-> 400, provider |-> "", model |-> "", content |-> ""]
          [] n # 0 /\ outcome = "reply" ->
               [status |-> 200, provider |-> selected.provider, model |-> selected.id,
                content |-> "provider"]
          [] n # 0 /\ outcome = "raise" ->
               [status |-> 500, provider |-> "", model |-> "", content |-> ""]
          [] OTHER ->
               [status |-> 200, provider |-> "mock",
                model |-> IF Truthy(model) THEN model ELSE "mock-model",
                content |-> "mock"]

\* the models a request can name
RequestModels ==
    {NoModelNamed, "", "llama3", "open:1", "mock-gpt-3.5-turbo", "mock-llama2:7b",
     "nope"}

InitChat ==
    /\ mock_models = <<>> /\ api_key \in BOOLEAN
    /\ chatReq = NoRequest /\ chatResp = NoResponse
    /\ IndexIdle /\ TokIdle /\ ChunkIdle /\ ScanIdle /\ SugIdle /\ MoreIdle

\* GET /api/models
GetModels(tags, listing) ==
    /\ mock_models' = cached_models(mock_models, tags, listing, api_key)
    /\ chatReq' = NoRequest /\ chatResp' = NoResponse
    /\ UNCHANGED <<api_key, indexVars, tokVars, chunkVars, scanVars, sugVars,
                   moreVars>>

\* POST /api/chat with n messages
Chat(n, model, tags, listing, post) ==
    /\ mock_models' = IF n # 0 /\ Truthy(model)
                      THEN cached_models(mock_models, tags, listing, api_key)
                      ELSE mock_models
    /\ chatReq' = [n |-> n, model |-> model, post |-> post]
    /\ chatResp' = chat_completion(n, model, mock_models', api_key, post)
    /\ UNCHANGED <<api_key, indexVars, tokVars, chunkVars, scanVars, sugVars,
                   moreVars>>

NextChat ==
    \/ \E tags, listing \in HttpOutcomes : GetModels(tags, listing)
    \/ \E n \in 0..MaxMessages : \E model \in RequestModels :
          \E tags, listing, post \in HttpOutcomes :
              Chat(n, model, tags, listing, post)

SpecChat == InitChat /\ [][NextChat]_vars

----------------------------------------------------------------------------
(* C20 *)

\* the last call was a POST /api/chat
ChatServed == chatReq # NoRequest

\* the conditions under which the claim has the mock reply given
FallsBack ==
    LET selected == find_model(mock_models, chatReq.model)
    IN  \/ chatReq.model = NoModelNamed
        \/ selected = NotFound
        \/ selected.provider = "openrouter" /\ ~api_key
        \/ chatReq.post \in {"raise", "non200"}

\* C20: POST /api/chat with at least one message always answers 200;
\* whenever no model is named, the named model is not in the model list, the
\* model's provider is openrouter and no API key is set, or the provider call
\* raises or returns a non-200 status, the answer is the mock reply with
\* context.provider = "mock"; a request with an empty message list is
\* rejected with status 400.
C20_ChatFallsBackToMock ==
    ChatServed =>
        /\ chatReq.n >= 1 => chatResp.status = 200
        /\ (chatReq.n >= 1 /\ FallsBack) =>
              chatResp.provider = "mock" /\ chatResp.content = "mock"
        /\ chatReq.n = 0 => chatResp.status = 400

\* a request naming a listed ollama model was answered by the mock after
\* the provider call raised
C20_Witness ==
    /\ ChatServed /\ chatReq.n >= 1 /\ chatReq.post = "raise"
    /\ find_model(mock_models, chatReq.model).provider = "ollama"
    /\ chatResp.provider = "mock"

----------------------------------------------------------------------------
(* src/math_ops.py: is_prime *)

\* An argument n of is_prime is [e, r]: the integer r when e = 0, and
\* 2^e + r (with 0 <= r < 2^e) when e > 0, for the integers beyond the range
\* of a float.

\* sys.float_info.max_exp: float(n), and so n**0.5, raises OverflowError for
\* an int n >= 2^1024
FLOAT_MAX_EXP == 1024

IsSmall(n) == n.e = 0

\* n < 2, n == 2, n % 2 == 0
LessThanTwo(n) == IsSmall(n) /\ n.r < 2
IsTwo(n) == IsSmall(n) /\ n.r = 2
IsEven(n) == n.r % 2 = 0

\* whether n**0.5 raises OverflowError
PowHalfRaises(n) == n.e >= FLOAT_MAX_EXP

\* int(n**0.5) for an n the float represents exactly
IntSqrt(v) == sqrt(v)

\* range(3, int(n**0.5) + 1, 2)
OddDivisors(v) == {i \in 3..IntSqrt(v) : i % 2 = 1}

\* the exception is_prime(n) raises for an int n, "" if none
is_prime_raises(n) ==
    IF ~LessThanTwo(n) /\ ~IsTwo(n) /\ ~IsEven(n) /\ PowHalfRaises(n)
    THEN "OverflowError" ELSE ""

\* what is_prime(n) returns when it does not raise
is_prime(n) ==
    IF LessThanTwo(n) THEN FALSE
    ELSE IF IsTwo(n) THEN TRUE
    ELSE IF IsEven(n) THEN FALSE
    ELSE \A i \in OddDivisors(n.r) : n.r % i # 0

\* the integers tried: the small ones, and 2^e and 2^e + 1 past the floats
PrimeInputs ==
    {SmallInt(v) : v \in -MaxPrime..MaxPrime}
    \cup {[e |-> x, r |-> y] : x \in FLOAT_MAX_EXP..(FLOAT_MAX_EXP + 1), y \in {0, 1}}

InitPrime ==
    /\ primeIn \in PrimeInputs
    /\ primeOut = FALSE /\ primeErr = "" /\ primeDone = FALSE
    /\ IndexIdle /\ TokIdle /\ ChunkIdle /\ ScanIdle /\ SugIdle /\ ChatIdle
    /\ RaceIdle /\ CoordIdle /\ MgrIdle

\* primeOut = is_prime(primeIn), or the exception it raises
IsPrime ==
    /\ ~primeDone
    /\ primeErr' = is_prime_raises(primeIn)
    /\ primeOut' = IF primeErr' = "" THEN is_prime(primeIn) ELSE FALSE
    /\ primeDone' = TRUE
    /\ UNCHANGED <<primeIn, indexVars, tokVars, chunkVars, scanVars, sugVars, chatVars,
                   raceVars, coordVars, mgrVars>>

NextPrime == IsPrime

SpecPrime == InitPrime /\ [][NextPrime]_vars

----------------------------------------------------------------------------
(* C21 *)

\* C21: for every integer n, is_prime(n) returns True if and only if n >= 2
\* and no integer d with 1 < d < n divides n; in particular it returns False
\* for every n < 2, negative numbers included.
C21_IsPrimeIffNoDivisor ==
    primeDone =>
        /\ primeErr = ""
        /\ IsSmall(primeIn) =>
              (primeOut <=>
                  /\ primeIn.r >= 2
                  /\ \A d \in 2..(primeIn.r - 1) : primeIn.r % d # 0)

----------------------------------------------------------------------------
(* C22 *)

\* the fragments sharing at least one token with the query text
SharingToken == {i \in DOMAIN fragments : Range(FragTokens(i)) \cap Range(QTokens) # {}}

\* C22: after build(), every weight stored in a fragment vector is strictly
\* positive, so for k at least the number of fragments query(text, k) returns
\* a fragment if and only if the fragment shares at least one token with
\* text; a fragment with no tokens is never returned.
C22_PositiveWeightsMatchIffShared ==
    /\ built => \A i \in DOMAIN vectors : \A t \in DOMAIN vectors[i] : vectors[i][t] > 0
    /\ (op = "query" /\ qk >= Len(fragments)) => Range(result) = SharingToken
    /\ op = "query" => \A j \in DOMAIN result : FragTokens(result[j]) # <<>>

\* a query with k the number of fragments returned one of two fragments, the
\* other sharing no token with the text
C22_Witness ==
    /\ op = "query" /\ Len(fragments) = 2 /\ qk >= 2
    /\ Len(result) = 1
    /\ \E i \in DOMAIN fragments : i \notin SharingToken /\ FragTokens(i) # <<>>

----------------------------------------------------------------------------
(* C23 *)

wQqq == <<"q", "q", "q">>

\* texts made of words that are in no file: "zzz" and "zzz qqq zzz"
UnseenTexts == {wZzz, wZzz \o SP \o wQqq \o SP \o wZzz}

\* C23: for every built index and k, adding to a query tokens that occur in
\* no fragment (absent from df) changes neither the set of fragments query()
\* returns nor their relative order.
C23_UnseenTokensChangeNothing ==
    op = "query" =>
        \A extra \in UnseenTexts :
            Range(simple_tokenize(extra)) \cap DOMAIN df = {} =>
                query(Index, qtext \o SP \o extra, qk) = result

\* a query of tokens that are all in the index returned two fragments of
\* different scores
C23_Witness ==
    /\ op = "query" /\ Len(result) >= 2
    /\ Range(QTokens) \subseteq DOMAIN df
    /\ ScoreOf(result[1]) > ScoreOf(result[2])

----------------------------------------------------------------------------
(* C24 *)

\* text with its ASCII letters changed to upper case, or to lower case
ascii_upper(text) ==
    [i \in DOMAIN text |->
        IF text[i] \in AsciiLower
        THEN UpperSeq[CHOOSE j \in 1..26 : LowerSeq[j] = text[i]] ELSE text[i]]
ascii_lower(text) ==
    [i \in DOMAIN text |-> IF text[i] \in AsciiUpper THEN LowerOf[text[i]] ELSE text[i]]

\* C24: indexing and querying use the same tokenizer, so matching is
\* case-insensitive on both sides: query(text, k) returns the same fragments
\* in the same order as the query of text with its ASCII letters changed to
\* upper or to lower case, and a fragment containing a word (longer than 2
\* characters) in any letter case is matched by that word in any other case.
C24_CaseInsensitiveMatching ==
    /\ op = "query" =>
          /\ query(Index, ascii_upper(qtext), qk) = result
          /\ query(Index, ascii_lower(qtext), qk) = result
    /\ built =>
          \A i \in DOMAIN fragments : \A t \in Range(FragTokens(i)) :
              /\ i \in Range(query(Index, ascii_upper(t), Len(fragments)))
              /\ i \in Range(query(Index, t, Len(fragments)))

\* a query in mixed case returned a fragment whose text has a word in mixed
\* case
C24_Witness ==
    /\ op = "query" /\ result # <<>>
    /\ ascii_upper(qtext) # qtext /\ ascii_lower(qtext) # qtext
    /\ \E j \in DOMAIN result :
          ascii_lower(fragments[result[j]].text) # fragments[result[j]].text

----------------------------------------------------------------------------
(* C26 *)

\* C26: for every built index and every text, query(text, k) with k <= 0
\* returns an empty list; in particular a negative k never returns any
\* fragment.
C26_NonPositiveKReturnsNothing ==
    (op = "query" /\ qk <= 0) => result = <<>>

----------------------------------------------------------------------------
(* Two threads calling query() on one fresh indexer *)

\* The index is followed by its shape alone: the number of fragments, and
\* for each vector whether build() has normalized it.  Each statement of
\* build() that touches the shared lists is one step of a thread; RaceChunks
\* is the number of chunks under root.

BuildPcs == {"clearF", "clearD", "clearV", "appendF", "appendV", "weigh", "setBuilt"}

\* whether thread t has to wait for another thread before ensure_built():
\* there is no lock
\* faulty variant: t waits while another thread is inside build()
WaitsMut(t) == \E u \in Threads \ {t} : thPc[u] \in BuildPcs
Waits(t) == FALSE

\* the number of vectors not normalized yet
RawCount(vecs) == Cardinality({i \in DOMAIN vecs : vecs[i] = "raw"})

\* thread t goes to pc, index idx, everything of the other thread kept
Goto(t, pc, idx) ==
    /\ thPc' = [thPc EXCEPT ![t] = pc]
    /\ thIdx' = [thIdx EXCEPT ![t] = idx]

\* if not self._built: self.build()
TestBuilt(t) ==
    /\ thPc[t] = "call" /\ ~Waits(t)
    /\ IF shBuilt
       THEN Goto(t, "score", 0) /\ UNCHANGED thBuilds
       ELSE Goto(t, "clearF", 0) /\ thBuilds' = [thBuilds EXCEPT ![t] = @ + 1]
    /\ UNCHANGED <<shFragments, shVectors, shBuilt, thObs>>

\* self.fragments.clear(); self.df.clear(); self.vectors.clear()
ClearStep(t) ==
    /\ \/ thPc[t] = "clearF" /\ shFragments' = 0 /\ UNCHANGED shVectors
          /\ Goto(t, "clearD", 0)
       \/ thPc[t] = "clearD" /\ UNCHANGED <<shFragments, shVectors>>
          /\ Goto(t, "clearV", 0)
       \/ thPc[t] = "clearV" /\ shVectors' = <<>> /\ UNCHANGED shFragments
          /\ Goto(t, "appendF", 1)
    /\ UNCHANGED <<shBuilt, thBuilds, thObs>>

\* self.fragments.append(frag) ... self.vectors.append(tf), chunk by chunk
AppendStep(t) ==
    /\ \/ thPc[t] = "appendF" /\ shFragments' = shFragments + 1
          /\ UNCHANGED shVectors /\ Goto(t, "appendV", thIdx[t])
       \/ thPc[t] = "appendV" /\ shVectors' = Append(shVectors, "raw")
          /\ UNCHANGED shFragments
          /\ IF thIdx[t] < RaceChunks
             THEN Goto(t, "appendF", thIdx[t] + 1)
             ELSE Goto(t, "weigh", 1)
    /\ UNCHANGED <<shBuilt, thBuilds, thObs>>

\* for tf in self.vectors: ... tf[t] /= norm, one vector a step
WeighStep(t) ==
    /\ thPc[t] = "weigh"
    /\ IF thIdx[t] <= Len(shVectors)
       THEN /\ shVectors' = [shVectors EXCEPT ![thIdx[t]] = "norm"]
            /\ Goto(t, "weigh", thIdx[t] + 1)
       ELSE UNCHANGED shVectors /\ Goto(t, "setBuilt", 0)
    /\ UNCHANGED <<shFragments, shBuilt, thBuilds, thObs>>

\* self._built = True
SetBuilt(t) ==
    /\ thPc[t] = "setBuilt"
    /\ shBuilt' = TRUE
    /\ Goto(t, "score", 0)
    /\ UNCHANGED <<shFragments, shVectors, thBuilds, thObs>>

\* the scoring of query(): what it finds in fragments and vectors
Score(t) ==
    /\ thPc[t] = "score"
    /\ thObs' = [thObs EXCEPT ![t] = [lenF |-> shFragments, lenV |-> Len(shVectors),
                                      raw |-> RawCount(shVectors)]]
    /\ Goto(t, "done", 0)
    /\ UNCHANGED <<shFragments, shVectors, shBuilt, thBuilds>>

ThreadStep(t) ==
    TestBuilt(t) \/ ClearStep(t) \/ AppendStep(t) \/ WeighStep(t) \/ SetBuilt(t) \/ Score(t)

InitRace ==
    /\ RaceIdle /\ PrimeIdle /\ CoordIdle /\ MgrIdle
    /\ IndexIdle /\ TokIdle /\ ChunkIdle /\ ScanIdle /\ SugIdle /\ ChatIdle

NextRace ==
    \E t \in Threads :
        ThreadStep(t) /\ UNCHANGED <<indexVars, tokVars, chunkVars, scanVars, sugVars,
                                     chatVars, primeVars, coordVars, mgrVars>>

SpecRace == InitRace /\ [][NextRace]_vars

----------------------------------------------------------------------------
(* C25 *)

\* C25: the lazy build has no concurrency guard: a thread in query() never
\* waits for the other one, neither before it tests the built flag nor
\* before it scores, and it builds whenever it found the flag unset (at most
\* once).  So there is an interleaving in which both threads run build(),
\* and one in which a query scores against fragments and vectors that a
\* running build() has cleared, only partly filled or not yet normalized
\* (len(vectors) differs from len(fragments)): C25_Witness is such a state.
C25_NoGuardOnLazyBuild ==
    \A t \in Threads :
        /\ thPc[t] = "call" => ENABLED TestBuilt(t)
        /\ thPc[t] = "score" => ENABLED Score(t)
        /\ thBuilds[t] <= 1
        /\ thPc[t] \in BuildPcs => thBuilds[t] = 1

\* both threads have run build(), and one of them scored against vectors
\* and fragments of different lengths
C25_Witness ==
    /\ \A t \in Threads : thBuilds[t] = 1
    /\ \E t \in Threads :
          /\ thObs[t] # NoObs
          /\ thObs[t].lenV # thObs[t].lenF

----------------------------------------------------------------------------
(* backend/integrations/enhanced_coordination.py: EnhancedAgentCoordinator *)

\* agents is the dict self.agents in insertion order, a sequence of AgentInfo
\* records; tasks is self.tasks, the task ids being 1, 2, ... in the order of
\* submission (uuid4 strings in the code).

AgentIds == {"a1", "a2"}
TaskIds == {1, 2}
Capacities == {0, 1, 2}
CapabilitySets == {{"implementation"}, {"review"}}
TaskTypes == {"review", "generic"}
\* ids that name no task
UnknownTasks == {0}
NoAgent == "None"

\* capability_mapping.get(task_type, AgentCapability.IMPLEMENTATION)
get_required_capability(type) ==
    CASE type = "planning" -> "planning"
      [] type = "implementation" -> "implementation"
      [] type = "verification" -> "verification"
      [] type = "review" -> "review"
      [] type = "research" -> "research"
      [] type = "debugging" -> "debugging"
      [] type = "testing" -> "testing"
      [] OTHER -> "implementation"

Registered == {agents[i].id : i \in DOMAIN agents}
AgentPos(id) == CHOOSE i \in DOMAIN agents : agents[i].id = id

\* _dependencies_satisfied(task)
dependencies_satisfied(task) ==
    \A d \in task.dependencies : d \in DOMAIN tasks /\ tasks[d].status = "completed"

\* len(agent.current_tasks) < agent.max_concurrent_tasks
\* faulty variant: an agent at its limit still has room
HasRoomMut(agent) == Cardinality(agent.current_tasks) <= agent.max_concurrent_tasks
HasRoom(agent) == Cardinality(agent.current_tasks) < agent.max_concurrent_tasks

\* _find_suitable_agents(task): the positions of the suitable agents
find_suitable_agents(task) ==
    {i \in DOMAIN agents :
        /\ get_required_capability(task.type) \in agents[i].capabilities
        /\ HasRoom(agents[i])}

\* score a > score b, the score being success_rate (always the default 0.5,
\* no task is ever recorded as completed) minus half the load factor
\* len(current_tasks) / max_concurrent_tasks
ScoreAbove(a, b) ==
    Cardinality(a.current_tasks) * b.max_concurrent_tasks
        < Cardinality(b.current_tasks) * a.max_concurrent_tasks

\* _select_best_agent: the first of the suitable agents with the best score
select_best_agent(suitable) ==
    CHOOSE i \in suitable :
        \A j \in suitable \ {i} :
            \/ ScoreAbove(agents[i], agents[j])
            \/ ~ScoreAbove(agents[j], agents[i]) /\ i < j

\* register_agent(agent_id, agent_type, capabilities, max_concurrent_tasks)
RegisterAgent(id, caps, max) ==
    /\ id \notin Registered
    /\ agents' = Append(agents, [id |-> id, capabilities |-> caps, status |-> "idle",
                                 max_concurrent_tasks |-> max, current_tasks |-> {}])
    /\ UNCHANGED <<tasks, task_queue, loopPc, cancelled>>

\* unregister_agent(agent_id)
UnregisterAgent(id) ==
    /\ id \in Registered
    /\ LET agent == agents[AgentPos(id)]
       IN  tasks' = [t \in DOMAIN tasks |->
                        IF t \in agent.current_tasks
                        THEN [tasks[t] EXCEPT !.status = "cancelled"] ELSE tasks[t]]
    /\ agents' = SelectSeq(agents, LAMBDA a : a.id # id)
    /\ UNCHANGED <<task_queue, loopPc, cancelled>>

\* submit_task(task_type, description, dependencies=deps)
SubmitTask(type, deps) ==
    /\ Len(tasks) + 1 \in TaskIds
    /\ tasks' = Append(tasks, [type |-> type, status |-> "pending",
                               assigned_agent |-> NoAgent, dependencies |-> deps])
    /\ task_queue' = Append(task_queue, Len(tasks) + 1)
    /\ UNCHANGED <<agents, loopPc, cancelled>>

\* cancel_task(task_id) returning True
CancelTask(t) ==
    /\ t \in DOMAIN tasks
    /\ tasks[t].status \notin {"completed", "failed", "cancelled"}
    /\ tasks' = [tasks EXCEPT ![t].status = "cancelled"]
    /\ agents' = [i \in DOMAIN agents |->
                     IF agents[i].id = tasks[t].assigned_agent
                     THEN LET rest == agents[i].current_tasks \ {t}
                          IN  [agents[i] EXCEPT
                                  !.current_tasks = rest,
                                  !.status = IF rest = {} THEN "idle" ELSE @]
                     ELSE agents[i]]
    /\ cancelled' = cancelled \cup {t}
    /\ UNCHANGED <<task_queue, loopPc>>

\* _assign_task(t), t just taken from the queue
AssignTask(t, queue) ==
    IF ~dependencies_satisfied(tasks[t]) \/ find_suitable_agents(tasks[t]) = {}
    THEN /\ task_queue' = Append(queue, t)
         /\ UNCHANGED <<agents, tasks>>
    ELSE LET best == select_best_agent(find_suitable_agents(tasks[t]))
         IN  /\ tasks' = [tasks EXCEPT ![t].assigned_agent = agents[best].id,
                                       ![t].status = "assigned"]
             /\ agents' = [agents EXCEPT
                               ![best].current_tasks = @ \cup {t},
                               ![best].status = "busy"]
             /\ task_queue' = queue

\* _coordination_loop: the sleep of a cycle is over, _process_task_queue starts
LoopWake ==
    /\ loopPc = "sleep"
    /\ loopPc' = "process"
    /\ UNCHANGED <<agents, tasks, task_queue, cancelled>>

\* _process_task_queue: one turn of "while not self.task_queue.empty()"
ProcessOne ==
    /\ loopPc = "process"
    /\ task_queue # <<>>
    /\ AssignTask(Head(task_queue), Tail(task_queue))
    /\ UNCHANGED <<loopPc, cancelled>>

\* _process_task_queue returns, the queue being empty
ProcessDone ==
    /\ loopPc = "process"
    /\ task_queue = <<>>
    /\ loopPc' = "update"
    /\ UNCHANGED <<agents, tasks, task_queue, cancelled>>

\* _check_task_completion, _update_workflow_statuses (no workflow is modelled),
\* _balance_agent_workloads, then asyncio.sleep(1.0)
LoopSleep ==
    /\ loopPc = "update"
    /\ loopPc' = "sleep"
    /\ UNCHANGED <<agents, tasks, task_queue, cancelled>>

LoopStep == LoopWake \/ ProcessOne \/ ProcessDone \/ LoopSleep

\* the dependencies a caller can name: none, a task, an id of no task
DependencySets == {{}, {1}, UnknownTasks}

CoordUnused ==
    <<indexVars, tokVars, chunkVars, scanVars, sugVars, chatVars, primeVars,
      raceVars, mgrVars>>

InitCoord ==
    /\ CoordIdle /\ PrimeIdle /\ RaceIdle /\ MgrIdle
    /\ IndexIdle /\ TokIdle /\ ChunkIdle /\ ScanIdle /\ SugIdle /\ ChatIdle

NextCoord ==
    \/ \E id \in AgentIds, caps \in CapabilitySets, max \in Capacities :
            RegisterAgent(id, caps, max) /\ UNCHANGED CoordUnused
    \/ \E id \in AgentIds : UnregisterAgent(id) /\ UNCHANGED CoordUnused
    \/ \E type \in TaskTypes, deps \in DependencySets :
            SubmitTask(type, deps) /\ UNCHANGED CoordUnused
    \/ \E t \in TaskIds : CancelTask(t) /\ UNCHANGED CoordUnused
    \/ LoopWake /\ UNCHANGED CoordUnused
    \/ ProcessOne /\ UNCHANGED CoordUnused
    \/ ProcessDone /\ UNCHANGED CoordUnused
    \/ LoopSleep /\ UNCHANGED CoordUnused

SpecCoord == InitCoord /\ [][NextCoord]_vars

\* the event loop keeps running the coordination task
SpecCoordLive == SpecCoord /\ WF_coordVars(LoopStep)

----------------------------------------------------------------------------
(* C27 *)

\* C27: CANCELLED is terminal: a task that cancel_task has cancelled keeps
\* the status CANCELLED and is in no agent's current_tasks.
C27_CancelledIsTerminal ==
    \A t \in cancelled :
        /\ tasks[t].status = "cancelled"
        /\ \A i \in DOMAIN agents : t \notin agents[i].current_tasks

----------------------------------------------------------------------------
(* C28 *)

\* C28: every call of _process_task_queue returns: a cycle that has started
\* to process the queue reaches _update_workflow_statuses.
C28_ProcessTaskQueueTerminates == (loopPc = "process") ~> (loopPc = "update")

----------------------------------------------------------------------------
(* C29 *)

\* C29: an agent with max_concurrent_tasks >= 1 holds at most that many
\* tasks, and no task is held by two agents.
C29_CapacityAndSingleHolder ==
    /\ \A i \in DOMAIN agents :
           agents[i].max_concurrent_tasks >= 1
               => Cardinality(agents[i].current_tasks) <= agents[i].max_concurrent_tasks
    /\ \A i, j \in DOMAIN agents :
           i # j => agents[i].current_tasks \cap agents[j].current_tasks = {}

\* an agent is full, a second agent holds another task, and a task has been
\* sent back to the queue for want of room
C29_Witness ==
    /\ \E i, j \in DOMAIN agents :
           /\ i # j
           /\ agents[i].max_concurrent_tasks >= 1
           /\ Cardinality(agents[i].current_tasks) = agents[i].max_concurrent_tasks
           /\ agents[j].current_tasks # {}
    /\ loopPc = "process"

----------------------------------------------------------------------------
(* backend/agents/__init__.py: Agent, its subclasses and AgentManager *)

\* progress is in units of 1/One.  An optional argument is a sequence: <<>>
\* for None, <<v>> for the value v.  running_tasks maps the id of a run (the
\* number of the run; the agent type and a timestamp in the code) to the
\* agent it runs and how far execute() has come: "created" (not started),
\* "awaiting" (waiting for the language model), "success", "error".

\* Agent.update_status(status, progress, error)
update_status(agent, status, progress, error) ==
    [status |-> status,
     progress |-> IF progress # <<>> THEN progress[1] ELSE agent.progress,
     error |-> IF error # <<>> THEN error[1] ELSE agent.error]

\* the progress values execute() reports with the status RUNNING
RunningProgress(a) ==
    IF a = "orchestrator" THEN <<100, 300, 900>> ELSE <<200, 500, 800>>

\* AgentManager.run_agent(agent_type, task)
RunAgent(a) ==
    /\ runs < MaxRuns
    /\ runs' = runs + 1
    /\ running_tasks' = [id \in DOMAIN running_tasks \cup {runs + 1} |->
                            IF id = runs + 1 THEN [agent |-> a, stage |-> "created"]
                            ELSE running_tasks[id]]
    /\ UNCHANGED mgrAgents

\* execute() up to its first await: update_status(RUNNING, first progress)
ExecStart(id) ==
    /\ id \in DOMAIN running_tasks
    /\ running_tasks[id].stage = "created"
    /\ LET a == running_tasks[id].agent
       IN  mgrAgents' = [mgrAgents EXCEPT ![a] =
                            update_status(@, "running", <<RunningProgress(a)[1]>>, <<>>)]
    /\ running_tasks' = [running_tasks EXCEPT ![id].stage = "awaiting"]
    /\ UNCHANGED runs

\* the language model answers: execute() runs to its end without waiting again
ExecFinish(id) ==
    /\ id \in DOMAIN running_tasks
    /\ running_tasks[id].stage = "awaiting"
    /\ LET a == running_tasks[id].agent
           s1 == update_status(mgrAgents[a], "running", <<RunningProgress(a)[2]>>, <<>>)
           s2 == update_status(s1, "running", <<RunningProgress(a)[3]>>, <<>>)
           s3 == update_status(s2, "success", <<One>>, <<>>)
       IN  mgrAgents' = [mgrAgents EXCEPT ![a] = s3]
    /\ running_tasks' = [running_tasks EXCEPT ![id].stage = "success"]
    /\ UNCHANGED runs

\* the language model call raises: except Exception as e:
\* update_status(ERROR, error=str(e)); raise
ExecFail(id) ==
    /\ id \in DOMAIN running_tasks
    /\ running_tasks[id].stage = "awaiting"
    /\ LET a == running_tasks[id].agent
       IN  mgrAgents' = [mgrAgents EXCEPT ![a] =
                            update_status(@, "error", <<>>, <<"llm error">>)]
    /\ running_tasks' = [running_tasks EXCEPT ![id].stage = "error"]
    /\ UNCHANGED runs

\* AgentManager.stop_agent(agent_type): the cancelled runs end with
\* CancelledError, which "except Exception" does not catch
StopAgent(a) ==
    /\ mgrAgents' = [mgrAgents EXCEPT ![a] = update_status(@, "idle", <<>>, <<>>)]
    /\ running_tasks' = [id \in {i \in DOMAIN running_tasks : running_tasks[i].agent # a}
                            |-> running_tasks[id]]
    /\ UNCHANGED runs

\* AgentManager.stop_all_agents()
StopAllAgents ==
    /\ mgrAgents' = [a \in AgentTypes |-> update_status(mgrAgents[a], "idle", <<>>, <<>>)]
    /\ running_tasks' = NoneYet
    /\ UNCHANGED runs

MgrUnused ==
    <<indexVars, tokVars, chunkVars, scanVars, sugVars, chatVars, primeVars,
      raceVars, coordVars>>

InitMgr ==
    /\ MgrIdle /\ PrimeIdle /\ RaceIdle /\ CoordIdle
    /\ IndexIdle /\ TokIdle /\ ChunkIdle /\ ScanIdle /\ SugIdle /\ ChatIdle

NextMgr ==
    \/ \E a \in AgentTypes : RunAgent(a) /\ UNCHANGED MgrUnused
    \/ \E id \in 1..MaxRuns : ExecStart(id) /\ UNCHANGED MgrUnused
    \/ \E id \in 1..MaxRuns : ExecFinish(id) /\ UNCHANGED MgrUnused
    \/ \E id \in 1..MaxRuns : ExecFail(id) /\ UNCHANGED MgrUnused
    \/ \E a \in AgentTypes : StopAgent(a) /\ UNCHANGED MgrUnused
    \/ StopAllAgents /\ UNCHANGED MgrUnused

SpecMgr == InitMgr /\ [][NextMgr]_vars

----------------------------------------------------------------------------
(* C30 *)

\* C30: whenever an agent's status is SUCCESS, its error is None and its
\* progress is 1.0.
C30_SuccessHasNoError ==
    \A a \in AgentTypes :
        mgrAgents[a].status = "success" =>
            mgrAgents[a].error = "None" /\ mgrAgents[a].progress = One

====
